---- MODULE Spec2Model ----
(***************************************************************************)
(* Order-creation / ticket-inventory workflow of the ticketing             *)
(* application: the server action createOrderAction, the admin server      *)
(* actions (createConcert, updateConcert, deleteConcert,                   *)
(* updateOrderStatus), the ConcertForm submit handler, and the two tables  *)
(* ("concerts", "orders") of the hosted record store they work on.         *)
(*                                                                         *)
(* Spec      : createOrderAction and updateOrderStatus, every handler      *)
(*             running to completion before the next starts.               *)
(* SpecAdmin : the same, with the concert form (createConcert,             *)
(*             updateConcert) of the admin back-office.                    *)
(* SpecConc  : createOrderAction requests interleaving at their awaits     *)
(*             (each store call is one step).                              *)
(* SpecService: the in-memory OrderService of the integration suite.       *)
(* SpecStatus : OrderService with the admin's updateOrderStatus.           *)
(* SpecTickets: reading one order (ticket page, TicketHistoryService).     *)
(* SpecDelete : deleteConcert next to ordering and status changes.         *)
(* SpecRace   : deleteConcert and createOrderAction, await by await.       *)
(* SpecAuthz  : every admin server action, for every kind of caller.       *)
(* SpecCreate : the three implementations of createOrder on one store.     *)
(* SpecFields : ordering, status changes and concert updates.              *)
(* SpecSales  : Spec on an empty order ledger.                             *)
(* SpecAuth   : the three sign-in paths with the admin's account toggle.   *)
(* SpecReads  : the read operations of the service doubles, repeated.      *)
(* SpecUpdateRace: updateOrderStatus calls, await by await.                *)
(* SpecForm   : the concert edit form next to createOrderAction.           *)
(* SpecCheckout: the checkout of the event detail page.                    *)
(***************************************************************************)
EXTENDS Integers, Sequences, FiniteSets, TLC

\* ---------------------------------------------------------------- bounds
MaxConcerts == 3      \* concert ids the store hands out: 1..MaxConcerts
MaxOrders == 2        \* order ids the store hands out: 1..MaxOrders
MaxTickets == 2       \* largest ticket count typed into the concert form
MaxQuantity == 2      \* largest quantity requested in one order
MaxUploads == 1       \* images the bucket takes

ConcertIds == 1..MaxConcerts
OrderIds == 1..MaxOrders
MaxAvailable == MaxTickets + 1
Quantities == -1..MaxQuantity
TicketCounts == 0..MaxTickets
Prices == {20, 50000}
NumRequests == 2      \* createOrderAction requests in flight together
Procs == 1..NumRequests

\* ---------------------------------------------------------------- values
NoSession == [id |-> "", role |-> ""]
NoIdSession == [id |-> "", role |-> "user"]
UserSession == [id |-> "u1", role |-> "user"]
AdminSession == [id |-> "a1", role |-> "admin"]
OtherUserSession == [id |-> "u2", role |-> "user"]
CustomerSessions == {NoSession, NoIdSession, UserSession}
AdminSessions == {NoSession, UserSession, AdminSession}

Statuses == {"pending", "success", "cancelled"}
NewStatuses == Statuses \cup {"completed"}

StoreCalls ==
    { "concerts.select", "concerts.insert", "concerts.update", "concerts.delete",
      "orders.select", "orders.insert", "orders.update", "orders.delete",
      "profiles.select", "profiles.update", "storage.upload" }

\* A numeric form field: <<>> when left empty, <<n>> when n was typed.
FormValues == {<< >>} \cup {<<n>> : n \in TicketCounts}

VARIABLES concerts, orders, nextConcertId, nextOrderId, last, req,
          shouldError, errorMessage, svcSession, profiles, uploads, del,
          upd, form, page

vars == <<concerts, orders, nextConcertId, nextOrderId, last, req,
          shouldError, errorMessage, svcSession, profiles, uploads, del,
          upd, form, page>>
db == <<concerts, orders, nextConcertId, nextOrderId>>
\* The fields of the service doubles (shouldError, errorMessage, session),
\* the profiles table, the image bucket, the deleteConcert call in flight,
\* the updateOrderStatus calls in flight, the concert an admin's edit form
\* was rendered with and the event the event page has loaded.
ext == <<shouldError, errorMessage, svcSession, profiles, uploads, del,
         upd, form, page>>

\* The response of the handler that ran last, with the request it answered.
Response(op, session, concertId, quantity, orderId, newStatus, failed, error, calls) ==
    [ op |-> op, session |-> session, concertId |-> concertId,
      quantity |-> quantity, orderId |-> orderId, newStatus |-> newStatus,
      failed |-> failed, error |-> error, calls |-> calls, data |-> << >> ]

\* A response that carries rows read from the store.
WithData(response, rows) == [response EXCEPT !.data = rows]

NoResponse == Response("none", NoSession, 0, 0, 0, "", "none", "none", <<>>)

NoConcert == [price |-> 0, total_tickets |-> 0, available_tickets |-> 0]

\* A createOrderAction request in flight: where it stands, its arguments and
\* the locals it holds across its awaits.
IdleRequest ==
    [ pc |-> "idle", session |-> NoSession, concertId |-> 0, quantity |-> 0,
      concert |-> NoConcert, orderId |-> 0, error |-> "none" ]

\* The store when the application starts: two concerts on sale and one
\* order still awaiting payment.
InitConcerts ==
    (1 :> [price |-> 50000, total_tickets |-> 3, available_tickets |-> 2]) @@
    (2 :> [price |-> 20, total_tickets |-> 1, available_tickets |-> 1])

InitOrders ==
    (1 :> [ user_id |-> "u1", concert_id |-> 1, quantity |-> 1,
            total_price |-> 50000, status |-> "pending" ])

UserIds == {"u1", "u2"}

\* A deleteConcert call in flight: where it stands, its argument and the
\* error it threw.
IdleDelete == [pc |-> "idle", id |-> 0, error |-> "none"]

\* An updateOrderStatus call in flight: where it stands and its arguments.
IdleUpdate == [pc |-> "idle", id |-> 0, newStatus |-> "", error |-> "none"]

\* The concert prop an admin's edit form was rendered with (id 0: no form
\* is open).
NoForm == [id |-> 0, concert |-> NoConcert]

\* The event state of the event detail page (id 0: no page is open).
NoPage == [id |-> 0, event |-> NoConcert]

InitExt ==
    /\ shouldError = FALSE
    /\ errorMessage = "Database error"
    /\ svcSession = NoSession
    /\ profiles = [u \in UserIds |-> [role |-> "user", is_active |-> TRUE]]
    /\ uploads = 0
    /\ del = IdleDelete
    /\ upd = [p \in Procs |-> IdleUpdate]
    /\ form = NoForm
    /\ page = NoPage

Init ==
    /\ concerts = InitConcerts
    /\ orders = InitOrders
    /\ nextConcertId = 3
    /\ nextOrderId = 2
    /\ last = NoResponse
    /\ req = [p \in Procs |-> IdleRequest]
    /\ InitExt

\* ------------------------------------------------- table helpers
Insert(table, id, row) == table @@ (id :> row)
Delete(table, ids) == [i \in DOMAIN table \ ids |-> table[i]]

\* ------------------------------------------------- createOrderAction
\* Variant: only the session is tested, not its user id.
IsAuthenticated_SessionOnly(session) == session # NoSession

IsAuthenticated(session) == session.id # ""

\* Variant: the comparison is off by one.
NotEnoughTickets_OffByOne(concert, quantity) ==
    concert.available_tickets + 1 < quantity

NotEnoughTickets(concert, quantity) == concert.available_tickets < quantity

\* Variant: the quantity is left out of the product.
TotalPrice_UnitPrice(concert, quantity) == concert.price

TotalPrice(concert, quantity) == concert.price * quantity

\* Variant: one ticket is taken whatever the quantity.
DecrementedAvailability_One(concert, quantity) == concert.available_tickets - 1

DecrementedAvailability(concert, quantity) == concert.available_tickets - quantity

NewOrder(userId, concertId, quantity, totalPrice) ==
    [ user_id |-> userId, concert_id |-> concertId, quantity |-> quantity,
      total_price |-> totalPrice, status |-> "success" ]

\* Variant: a missing concert reads as an empty row instead of no row.
SelectConcertById_EmptyRow(concertId) ==
    IF concertId \in DOMAIN concerts THEN <<concerts[concertId]>> ELSE <<NoConcert>>

\* .select("*").eq("id", concertId).single(): << >> when no row matches.
SelectConcertById(concertId) ==
    IF concertId \in DOMAIN concerts THEN <<concerts[concertId]>> ELSE << >>

createOrderAction(session, concertId, quantity, fail) ==
    LET respond(orderId, failed, error, calls) ==
            last' = Response("createOrderAction", session, concertId, quantity,
                             orderId, "", failed, error, calls)
    IN
    IF ~IsAuthenticated(session)
    THEN /\ respond(0, "none", "User not authenticated", <<>>)
         /\ UNCHANGED <<db, req, ext>>
    ELSE IF fail = "concerts.select" \/ SelectConcertById(concertId) = << >>
    THEN /\ respond(0, IF fail = "concerts.select" THEN fail ELSE "none",
                 "Concert not found", <<"concerts.select">>)
         /\ UNCHANGED <<db, req, ext>>
    ELSE LET concert == SelectConcertById(concertId)[1] IN
    IF NotEnoughTickets(concert, quantity)
    THEN /\ respond(0, "none", "Not enough tickets available", <<"concerts.select">>)
         /\ UNCHANGED <<db, req, ext>>
    ELSE IF fail = "orders.insert"
    THEN /\ respond(0, fail, "Failed to create order", <<"concerts.select", "orders.insert">>)
         /\ UNCHANGED <<db, req, ext>>
    ELSE /\ nextOrderId <= MaxOrders
         /\ DecrementedAvailability(concert, quantity) <= MaxAvailable
         /\ orders' = Insert(orders, nextOrderId,
                        NewOrder(session.id, concertId, quantity,
                                 TotalPrice(concert, quantity)))
         /\ nextOrderId' = nextOrderId + 1
         /\ IF fail = "concerts.update"
            THEN /\ respond(nextOrderId, fail, "Failed to update ticket count",
                            <<"concerts.select", "orders.insert", "concerts.update">>)
                 /\ UNCHANGED concerts
            ELSE /\ respond(nextOrderId, "none", "none",
                            <<"concerts.select", "orders.insert", "concerts.update">>)
                 /\ concerts' = IF concertId \in DOMAIN concerts
                                 THEN [concerts EXCEPT ![concertId].available_tickets =
                                        DecrementedAvailability(concert, quantity)]
                                 ELSE concerts
         /\ UNCHANGED <<nextConcertId, req, ext>>

\* The caller awaits the handler; the next request is sent once the
\* response of the previous one has been received.
Return ==
    /\ last # NoResponse
    /\ last' = NoResponse
    /\ UNCHANGED <<db, req, ext>>

CreateOrder ==
    /\ last = NoResponse
    /\ \E session \in CustomerSessions, concertId \in ConcertIds, quantity \in Quantities,
       fail \in {"none", "concerts.select", "orders.insert", "concerts.update"} :
        createOrderAction(session, concertId, quantity, fail)

\* ------------------------------------------------- admin actions
\* Variant: any signed-in user passes.
checkAdmin_AnySession(session) == session # NoSession

checkAdmin(session) == session # NoSession /\ session.role = "admin"

\* Variant: a paid order may go back to pending.
allowedTransitions_BackToPending(currentStatus) ==
    CASE currentStatus = "pending" -> {"pending", "success", "cancelled"}
      [] currentStatus = "success" -> {"pending", "success", "cancelled"}
      [] currentStatus = "cancelled" -> {"cancelled"}
      [] OTHER -> {}

\* Variant: a cancelled order may be paid again.
allowedTransitions_Reopen(currentStatus) ==
    CASE currentStatus = "pending" -> {"pending", "success", "cancelled"}
      [] currentStatus = "success" -> {"success", "cancelled"}
      [] currentStatus = "cancelled" -> {"cancelled", "success"}
      [] OTHER -> {}

allowedTransitions(currentStatus) ==
    CASE currentStatus = "pending" -> {"pending", "success", "cancelled"}
      [] currentStatus = "success" -> {"success", "cancelled"}
      [] currentStatus = "cancelled" -> {"cancelled"}
      [] OTHER -> {}

\* Variant: the update also clears the order's total.
SetStatus_ClearTotal(order, newStatus) ==
    [order EXCEPT !.status = newStatus, !.total_price = 0]

\* .update({ status: newStatus }): the only column written.
SetStatus(order, newStatus) == [order EXCEPT !.status = newStatus]

updateOrderStatus(session, id, newStatus, fail) ==
    LET respond(failed, error, calls) ==
            last' = Response("updateOrderStatus", session, 0, 0, id, newStatus,
                             failed, error, calls)
    IN
    IF ~checkAdmin(session)
    THEN /\ respond("none", "Unauthorized", <<>>)
         /\ UNCHANGED <<db, req, ext>>
    ELSE IF fail = "orders.select"
    THEN /\ respond(fail, "store error", <<"orders.select">>)
         /\ UNCHANGED <<db, req, ext>>
    ELSE IF id \notin DOMAIN orders
    THEN /\ respond("none", "no rows", <<"orders.select">>)
         /\ UNCHANGED <<db, req, ext>>
    ELSE IF newStatus \notin allowedTransitions(orders[id].status)
    THEN /\ respond("none", "Cannot change status", <<"orders.select">>)
         /\ UNCHANGED <<db, req, ext>>
    ELSE IF fail = "orders.update"
    THEN /\ respond(fail, "store error", <<"orders.select", "orders.update">>)
         /\ UNCHANGED <<db, req, ext>>
    ELSE /\ respond("none", "none", <<"orders.select", "orders.update">>)
         /\ orders' = [orders EXCEPT ![id] = SetStatus(orders[id], newStatus)]
         /\ UNCHANGED <<concerts, nextConcertId, nextOrderId, req, ext>>

UpdateOrderStatus ==
    /\ last = NoResponse
    /\ \E session \in AdminSessions, id \in OrderIds, newStatus \in NewStatuses,
       fail \in {"none", "orders.select", "orders.update"} :
        updateOrderStatus(session, id, newStatus, fail)

\* ConcertForm.handleSubmit: the record sent to createConcert/updateConcert.
handleSubmit(price, totalInput, availableInput) ==
    [ price |-> price,
      total_tickets |-> totalInput,
      available_tickets |-> IF availableInput # << >>
                             THEN availableInput[1]
                             ELSE totalInput ]

createConcert(session, concert, fail) ==
    LET respond(id, failed, error, calls) ==
            last' = Response("createConcert", session, id, 0, 0, "",
                             failed, error, calls)
    IN
    IF ~checkAdmin(session)
    THEN /\ respond(0, "none", "Unauthorized", <<>>)
         /\ UNCHANGED <<db, req, ext>>
    ELSE IF fail = "concerts.insert"
    THEN /\ respond(0, fail, "store error", <<"concerts.insert">>)
         /\ UNCHANGED <<db, req, ext>>
    ELSE /\ nextConcertId <= MaxConcerts
         /\ respond(nextConcertId, "none", "none", <<"concerts.insert">>)
         /\ concerts' = Insert(concerts, nextConcertId, concert)
         /\ nextConcertId' = nextConcertId + 1
         /\ UNCHANGED <<orders, nextOrderId, req, ext>>

updateConcert(session, id, concert, fail) ==
    LET respond(failed, error, calls) ==
            last' = Response("updateConcert", session, id, 0, 0, "",
                             failed, error, calls)
    IN
    IF ~checkAdmin(session)
    THEN /\ respond("none", "Unauthorized", <<>>)
         /\ UNCHANGED <<db, req, ext>>
    ELSE IF fail = "concerts.update"
    THEN /\ respond(fail, "store error", <<"concerts.update">>)
         /\ UNCHANGED <<db, req, ext>>
    ELSE /\ respond("none", "none", <<"concerts.update">>)
         /\ concerts' = IF id \in DOMAIN concerts
                         THEN [concerts EXCEPT ![id] = concert]
                         ELSE concerts
         /\ UNCHANGED <<orders, nextConcertId, nextOrderId, req, ext>>

\* Variant: only orders awaiting payment block the deletion.
ActiveOrders_PendingOnly(id) ==
    {o \in DOMAIN orders : orders[o].concert_id = id /\ orders[o].status = "pending"}

ActiveOrders(id) ==
    {o \in DOMAIN orders : orders[o].concert_id = id /\ orders[o].status # "cancelled"}

OrdersOf(id) == {o \in DOMAIN orders : orders[o].concert_id = id}

deleteConcert(session, id, fail) ==
    LET respond(failed, error, calls) ==
            last' = Response("deleteConcert", session, id, 0, 0, "",
                             failed, error, calls)
    IN
    IF ~checkAdmin(session)
    THEN /\ respond("none", "Unauthorized", <<>>)
         /\ UNCHANGED <<db, req, ext>>
    ELSE IF fail = "orders.select"
    THEN /\ respond(fail, "store error", <<"orders.select">>)
         /\ UNCHANGED <<db, req, ext>>
    ELSE IF ActiveOrders(id) # {}
    THEN /\ respond("none", "Cannot delete concert. There are active (non-cancelled) orders.",
                    <<"orders.select">>)
         /\ UNCHANGED <<db, req, ext>>
    ELSE IF fail = "orders.delete"
    THEN /\ respond(fail, "store error", <<"orders.select", "orders.delete">>)
         /\ UNCHANGED <<db, req, ext>>
    ELSE /\ orders' = Delete(orders, OrdersOf(id))
         /\ IF fail = "concerts.delete"
            THEN /\ respond(fail, "store error",
                            <<"orders.select", "orders.delete", "concerts.delete">>)
                 /\ UNCHANGED concerts
            ELSE /\ respond("none", "none",
                            <<"orders.select", "orders.delete", "concerts.delete">>)
                 /\ concerts' = Delete(concerts, {id})
         /\ UNCHANGED <<nextConcertId, nextOrderId, req, ext>>

\* What the admin types into the concert form (price, total tickets,
\* available tickets): a restock to the full capacity, a price change, and a
\* manual availability next to a smaller capacity.
FormInputs ==
    { <<50000, MaxTickets, << >> >>,
      <<20, MaxTickets, << >> >>,
      <<50000, 1, <<MaxTickets>> >> }

SubmitCreateForm ==
    /\ last = NoResponse
    /\ \E session \in AdminSessions, f \in FormInputs :
            createConcert(session, handleSubmit(f[1], f[2], f[3]), "none")

SubmitUpdateForm ==
    /\ last = NoResponse
    /\ \E session \in AdminSessions, id \in ConcertIds,
          f \in FormInputs :
            updateConcert(session, id, handleSubmit(f[1], f[2], f[3]), "none")

DeleteConcert ==
    /\ last = NoResponse
    /\ \E session \in AdminSessions, id \in ConcertIds,
          fail \in {"none", "orders.select", "orders.delete", "concerts.delete"} :
            deleteConcert(session, id, fail)

\* The same handlers with one signed-in customer ordering at least one
\* ticket, one admin, and a store that answers every call.
PlaceOrder ==
    /\ last = NoResponse
    /\ \E concertId \in ConcertIds, quantity \in 1..MaxQuantity :
          createOrderAction(UserSession, concertId, quantity, "none")

ChangeOrderStatus ==
    /\ last = NoResponse
    /\ \E id \in OrderIds, newStatus \in Statuses :
          updateOrderStatus(AdminSession, id, newStatus, "none")

Next ==
    \/ CreateOrder
    \/ UpdateOrderStatus
    \/ Return

Spec == Init /\ [][Next]_vars

\* ------------------------------------------------- createOrderAction, await by await
Finish(p, error) ==
    req' = [req EXCEPT ![p].pc = "done", ![p].error = error]

StartCreateOrder(p) ==
    /\ req[p].pc = "idle"
    /\ \E session \in {NoSession, UserSession}, concertId \in ConcertIds,
          quantity \in Quantities :
          req' = [req EXCEPT ![p] =
                    [ IdleRequest EXCEPT
                        !.session = session, !.concertId = concertId,
                        !.quantity = quantity,
                        !.pc = IF IsAuthenticated(session) THEN "select" ELSE "done",
                        !.error = IF IsAuthenticated(session) THEN "none"
                                  ELSE "User not authenticated" ]]
    /\ UNCHANGED <<db, last, ext>>

SelectConcert(p) ==
    /\ req[p].pc = "select"
    /\ IF req[p].concertId \notin DOMAIN concerts
       THEN Finish(p, "Concert not found")
       ELSE IF NotEnoughTickets(concerts[req[p].concertId], req[p].quantity)
       THEN Finish(p, "Not enough tickets available")
       ELSE req' = [req EXCEPT ![p].pc = "insert",
                               ![p].concert = concerts[req[p].concertId]]
    /\ UNCHANGED <<db, last, ext>>

InsertOrder(p) ==
    /\ req[p].pc = "insert"
    /\ IF req[p].concertId \notin DOMAIN concerts
       THEN /\ Finish(p, "Failed to create order")
            /\ UNCHANGED <<db, last, ext>>
       ELSE /\ nextOrderId <= MaxOrders
            /\ orders' = Insert(orders, nextOrderId,
                            NewOrder(req[p].session.id, req[p].concertId,
                                     req[p].quantity,
                                     TotalPrice(req[p].concert, req[p].quantity)))
            /\ nextOrderId' = nextOrderId + 1
            /\ req' = [req EXCEPT ![p].pc = "update", ![p].orderId = nextOrderId]
            /\ UNCHANGED <<concerts, nextConcertId, last, ext>>

UpdateAvailability(p) ==
    /\ req[p].pc = "update"
    /\ concerts' = IF req[p].concertId \in DOMAIN concerts
                    THEN [concerts EXCEPT ![req[p].concertId].available_tickets =
                            DecrementedAvailability(req[p].concert, req[p].quantity)]
                    ELSE concerts
    /\ Finish(p, "none")
    /\ UNCHANGED <<orders, nextConcertId, nextOrderId, last, ext>>

RECURSIVE SumQuantities(_)
SumQuantities(ps) ==
    IF ps = {} THEN 0
    ELSE LET p == CHOOSE x \in ps : TRUE
         IN req[p].quantity + SumQuantities(ps \ {p})

NextConc ==
    \/ \E p \in Procs : StartCreateOrder(p)
    \/ \E p \in Procs : SelectConcert(p)
    \/ \E p \in Procs : InsertOrder(p)
    \/ \E p \in Procs : UpdateAvailability(p)

\* The concurrent requests start on an empty order ledger.
InitConc ==
    /\ concerts = InitConcerts
    /\ orders = << >>
    /\ nextConcertId = 3
    /\ nextOrderId = 1
    /\ last = NoResponse
    /\ req = [p \in Procs |-> IdleRequest]
    /\ InitExt

SpecConc == InitConc /\ [][NextConc]_vars

NextAdmin ==
    \/ PlaceOrder
    \/ ChangeOrderStatus
    \/ SubmitCreateForm
    \/ SubmitUpdateForm
    \/ Return

SpecAdmin == Init /\ [][NextAdmin]_vars

\* ------------------------------------------------- OrderService
\* The in-memory order service of the order-management integration suite:
\* its orders array and concerts map are the two tables, its shouldError /
\* errorMessage fields switch every call to a store failure.
MaxPerOrder == 10

\* The suite's beforeEach: a fresh service holding one concert with more
\* tickets than one order may take.
ServiceConcerts ==
    (1 :> [ price |-> 50, total_tickets |-> MaxPerOrder + 2,
            available_tickets |-> MaxPerOrder + 2 ])

InitService ==
    /\ concerts = ServiceConcerts
    /\ orders = << >>
    /\ nextConcertId = 2
    /\ nextOrderId = 1
    /\ last = NoResponse
    /\ req = [p \in Procs |-> IdleRequest]
    /\ InitExt

ServiceQuantities == Quantities \cup {MaxPerOrder, MaxPerOrder + 1}

setError(error, message) ==
    /\ shouldError' = error
    /\ errorMessage' = IF message # << >> THEN message[1] ELSE errorMessage
    /\ UNCHANGED <<db, last, req, svcSession, profiles, uploads, del,
                   upd, form, page>>

\* Variant: the limit is one ticket higher.
ExceedsMaximum_Eleven(quantity) == quantity > MaxPerOrder + 1

ExceedsMaximum(quantity) == quantity > MaxPerOrder

\* The validations of OrderService.createOrder, in the order they are made;
\* "none" when all pass.
OrderService_createOrderError(concertId, quantity) ==
    IF shouldError THEN errorMessage
    ELSE IF concertId \notin DOMAIN concerts THEN "Concert not found"
    ELSE IF concerts[concertId].available_tickets < quantity
    THEN "Not enough tickets available"
    ELSE IF quantity <= 0 THEN "Invalid quantity"
    ELSE IF ExceedsMaximum(quantity) THEN "Maximum 10 tickets per order"
    ELSE "none"

OrderService_createOrder(userId, concertId, quantity) ==
    LET error == OrderService_createOrderError(concertId, quantity)
        respond(orderId) ==
            last' = Response("OrderService.createOrder",
                             [id |-> userId, role |-> "user"], concertId,
                             quantity, orderId, "", "none", error, <<>>)
    IN
    IF error # "none"
    THEN /\ respond(0)
         /\ UNCHANGED <<db, req, ext>>
    ELSE /\ nextOrderId <= MaxOrders
         /\ respond(nextOrderId)
         /\ orders' = Insert(orders, nextOrderId,
                        [ user_id |-> userId, concert_id |-> concertId,
                          quantity |-> quantity,
                          total_price |-> concerts[concertId].price * quantity,
                          status |-> "pending" ])
         /\ nextOrderId' = nextOrderId + 1
         /\ concerts' = [concerts EXCEPT ![concertId].available_tickets =
                            concerts[concertId].available_tickets - quantity]
         /\ UNCHANGED <<nextConcertId, req, ext>>

\* Variant: one ticket comes back whatever the order's quantity.
RestoredAvailability_One(concert, order) == concert.available_tickets + 1

\* concert.available_tickets += order.quantity
RestoredAvailability(concert, order) == concert.available_tickets + order.quantity

\* Variant: a cancelled order may be cancelled again.
validTransitions_Recancel(status) ==
    CASE status = "pending" -> {"completed", "cancelled"}
      [] status = "completed" -> {}
      [] status = "cancelled" -> {"cancelled"}
      [] OTHER -> {}

\* Variant: a completed order may still be cancelled.
validTransitions_CancelCompleted(status) ==
    CASE status = "pending" -> {"completed", "cancelled"}
      [] status = "completed" -> {"cancelled"}
      [] status = "cancelled" -> {}
      [] OTHER -> {}

validTransitions(status) ==
    CASE status = "pending" -> {"completed", "cancelled"}
      [] status = "completed" -> {}
      [] status = "cancelled" -> {}
      [] OTHER -> {}

\* The error "Cannot transition from <status> to <new status>" is kept by
\* its fixed first words.
OrderService_updateStatus(orderId, status) ==
    LET respond(error) ==
            last' = Response("OrderService.updateStatus", NoSession, 0, 0,
                             orderId, status, "none", error, <<>>)
    IN
    IF shouldError
    THEN /\ respond(errorMessage)
         /\ UNCHANGED <<db, req, ext>>
    ELSE IF orderId \notin DOMAIN orders
    THEN /\ respond("Order not found")
         /\ UNCHANGED <<db, req, ext>>
    ELSE IF status \notin validTransitions(orders[orderId].status)
    THEN /\ respond("Cannot transition")
         /\ UNCHANGED <<db, req, ext>>
    ELSE LET order == orders[orderId] IN
         /\ respond("none")
         /\ concerts' = IF status = "cancelled" /\ order.concert_id \in DOMAIN concerts
                         THEN [concerts EXCEPT ![order.concert_id].available_tickets =
                                RestoredAvailability(concerts[order.concert_id], order)]
                         ELSE concerts
         /\ orders' = [orders EXCEPT ![orderId] = [order EXCEPT !.status = status]]
         /\ UNCHANGED <<nextConcertId, nextOrderId, req, ext>>

ServiceCreateOrder ==
    /\ last = NoResponse
    /\ \E concertId \in ConcertIds, quantity \in ServiceQuantities :
          OrderService_createOrder("u1", concertId, quantity)

ServiceUpdateStatus ==
    /\ last = NoResponse
    /\ \E orderId \in OrderIds, status \in NewStatuses :
          OrderService_updateStatus(orderId, status)

ServiceSetError ==
    /\ last = NoResponse
    /\ \E error \in BOOLEAN, message \in {<< >>, <<"Database connection failed">>} :
          setError(error, message)

NextService ==
    \/ ServiceCreateOrder
    \/ ServiceUpdateStatus
    \/ ServiceSetError
    \/ Return

SpecService == InitService /\ [][NextService]_vars

\* The ledger under both status workflows: orders placed through the
\* service, their status changed through the service or by an admin
\* through updateOrderStatus.
NextStatus ==
    \/ ServiceCreateOrder
    \/ ServiceUpdateStatus
    \/ ServiceSetError
    \/ ChangeOrderStatus
    \/ Return

SpecStatus == InitService /\ [][NextStatus]_vars

\* ------------------------------------------------- ticket detail page
\* TicketDetailPage.loadOrder: the page of whoever is signed in (or of
\* nobody) reads the order named in the URL through the browser client.
loadOrder(session, id, fail) ==
    LET response(error) ==
            Response("loadOrder", session, 0, 0, id, "",
                     IF fail = "orders.select" THEN fail ELSE "none",
                     error, <<"orders.select">>)
    IN
    /\ last' = IF fail = "orders.select" \/ id \notin DOMAIN orders
               THEN response("Load order error")
               ELSE WithData(response("none"), <<orders[id]>>)
    /\ UNCHANGED <<db, req, ext>>

LoadOrder ==
    /\ last = NoResponse
    /\ \E session \in {NoSession, UserSession, OtherUserSession}, id \in OrderIds,
          fail \in {"none", "orders.select"} :
          loadOrder(session, id, fail)

\* ------------------------------------------------- TicketHistoryService
\* The in-memory ticket-history service of the integration suite, holding
\* the session it was given with setSession.
setSession(session) ==
    /\ svcSession' = session
    /\ UNCHANGED <<db, last, req, shouldError, errorMessage, profiles, uploads, del,
                   upd, form, page>>

checkAuthentication == svcSession # NoSession

TicketHistoryService_getOrderById(orderId) ==
    LET response(error) ==
            Response("TicketHistoryService.getOrderById", svcSession, 0, 0,
                     orderId, "", "none", error, <<>>)
    IN
    /\ last' = IF shouldError THEN response(errorMessage)
               ELSE IF ~checkAuthentication
               THEN response("Please login to view order details")
               ELSE IF orderId \notin DOMAIN orders THEN response("Order not found")
               ELSE IF orders[orderId].user_id # svcSession.id
               THEN response("Unauthorized to view this order")
               ELSE WithData(response("none"), <<orders[orderId]>>)
    /\ UNCHANGED <<db, req, ext>>

TicketGetOrderById ==
    /\ last = NoResponse
    /\ \E orderId \in OrderIds : TicketHistoryService_getOrderById(orderId)

ServiceSetSession ==
    /\ last = NoResponse
    /\ \E session \in {NoSession, UserSession, OtherUserSession} : setSession(session)

\* Reading one order, through the page and through the service.
NextTickets ==
    \/ LoadOrder
    \/ TicketGetOrderById
    \/ ServiceSetSession
    \/ ServiceSetError
    \/ PlaceOrder
    \/ Return

SpecTickets == Init /\ [][NextTickets]_vars

\* ------------------------------------------------- concert deletion
\* The admin deleting concerts while customers order and orders are paid
\* or cancelled, every handler running to completion.
NextDelete ==
    \/ PlaceOrder
    \/ ChangeOrderStatus
    \/ DeleteConcert
    \/ Return

SpecDelete == Init /\ [][NextDelete]_vars

\* ------------------------------------------------- deleteConcert, await by await
\* An admin's deleteConcert call, each store call one step, next to
\* createOrderAction requests that interleave with it.
StartDeleteConcert ==
    /\ del.pc = "idle"
    /\ \E session \in {UserSession, AdminSession}, id \in ConcertIds :
          del' = IF checkAdmin(session)
                 THEN [pc |-> "check", id |-> id, error |-> "none"]
                 ELSE [pc |-> "done", id |-> id, error |-> "Unauthorized"]
    /\ UNCHANGED <<db, last, req, shouldError, errorMessage, svcSession,
                   profiles, uploads, upd, form, page>>

SelectActiveOrders ==
    /\ del.pc = "check"
    /\ del' = IF ActiveOrders(del.id) # {}
              THEN [del EXCEPT !.pc = "done", !.error =
                      "Cannot delete concert. There are active (non-cancelled) orders."]
              ELSE [del EXCEPT !.pc = "deleteOrders"]
    /\ UNCHANGED <<db, last, req, shouldError, errorMessage, svcSession,
                   profiles, uploads, upd, form, page>>

DeleteOrders ==
    /\ del.pc = "deleteOrders"
    /\ orders' = Delete(orders, OrdersOf(del.id))
    /\ del' = [del EXCEPT !.pc = "deleteConcert"]
    /\ UNCHANGED <<concerts, nextConcertId, nextOrderId, last, req, shouldError,
                   errorMessage, svcSession, profiles, uploads, upd, form, page>>

\* The store refuses to delete a concert that orders still reference
\* (foreign key, error code 23503).
DeleteConcertRow ==
    /\ del.pc = "deleteConcert"
    /\ IF OrdersOf(del.id) # {}
       THEN /\ del' = [del EXCEPT !.pc = "done", !.error =
                         "Cannot delete concert because it has existing orders."]
            /\ UNCHANGED concerts
       ELSE /\ del' = [del EXCEPT !.pc = "done"]
            /\ concerts' = Delete(concerts, {del.id})
    /\ UNCHANGED <<orders, nextConcertId, nextOrderId, last, req, shouldError,
                   errorMessage, svcSession, profiles, uploads, upd, form, page>>

NextRace ==
    \/ \E p \in Procs : StartCreateOrder(p)
    \/ \E p \in Procs : SelectConcert(p)
    \/ \E p \in Procs : InsertOrder(p)
    \/ \E p \in Procs : UpdateAvailability(p)
    \/ StartDeleteConcert
    \/ SelectActiveOrders
    \/ DeleteOrders
    \/ DeleteConcertRow

SpecRace == Init /\ [][NextRace]_vars

\* ------------------------------------------------- admin reads, users, images
\* A read answers with its result set (the ordering by created_at is left
\* out).
AdminRead(op, session, id, call, fail, rows, found) ==
    LET response(failed, error, calls) ==
            Response(op, session, id, 0, 0, "", failed, error, calls)
    IN
    /\ last' = IF ~checkAdmin(session)
               THEN response("none", "Unauthorized", <<>>)
               ELSE IF fail = call THEN response(fail, "store error", <<call>>)
               ELSE IF ~found THEN response("none", "no rows", <<call>>)
               ELSE WithData(response("none", "none", <<call>>), <<rows>>)
    /\ UNCHANGED <<db, req, ext>>

getConcerts(session, fail) ==
    AdminRead("getConcerts", session, 0, "concerts.select", fail, concerts, TRUE)

getConcert(session, id, fail) ==
    AdminRead("getConcert", session, id, "concerts.select", fail,
              IF id \in DOMAIN concerts THEN concerts[id] ELSE NoConcert,
              id \in DOMAIN concerts)

getUsers(session, fail) ==
    AdminRead("getUsers", session, 0, "profiles.select", fail,
              [u \in {x \in DOMAIN profiles : profiles[x].role = "user"} |-> profiles[u]],
              TRUE)

getOrders(session, fail) ==
    AdminRead("getOrders", session, 0, "orders.select", fail, orders, TRUE)

toggleUserStatus(session, id, isActive, fail) ==
    LET respond(failed, error, calls) ==
            last' = Response("toggleUserStatus", session, 0, 0, 0, "",
                             failed, error, calls)
    IN
    IF ~checkAdmin(session)
    THEN /\ respond("none", "Unauthorized", <<>>)
         /\ UNCHANGED <<db, req, ext>>
    ELSE IF fail = "profiles.update"
    THEN /\ respond(fail, "store error", <<"profiles.update">>)
         /\ UNCHANGED <<db, req, ext>>
    ELSE /\ respond("none", "none", <<"profiles.update">>)
         /\ profiles' = IF id \in DOMAIN profiles
                         THEN [profiles EXCEPT ![id].is_active = isActive]
                         ELSE profiles
         /\ UNCHANGED <<db, req, shouldError, errorMessage, svcSession, uploads, del,
                      upd, form, page>>

\* Size limit of an uploaded image, in megabytes.
MaxFileSize == 10
AllowedTypes == {"image/jpeg", "image/png", "image/gif", "image/webp"}

\* The file field of the submitted form: << >> when no file was attached.
Files ==
    {<< >>} \cup
    { <<[size |-> s, type |-> t]>> :
        s \in {1, MaxFileSize + 1}, t \in {"image/png", "application/pdf"} }

uploadImage(session, file, fail) ==
    LET respond(failed, error, calls) ==
            last' = Response("uploadImage", session, 0, 0, 0, "",
                             failed, error, calls)
    IN
    IF ~checkAdmin(session)
    THEN /\ respond("none", "Unauthorized", <<>>)
         /\ UNCHANGED <<db, req, ext>>
    ELSE IF file = << >>
    THEN /\ respond("none", "No file uploaded", <<>>)
         /\ UNCHANGED <<db, req, ext>>
    ELSE IF file[1].size > MaxFileSize
    THEN /\ respond("none", "File size exceeds 10MB limit", <<>>)
         /\ UNCHANGED <<db, req, ext>>
    ELSE IF file[1].type \notin AllowedTypes
    THEN /\ respond("none", "Invalid file type. Allowed: JPEG, PNG, GIF, WebP", <<>>)
         /\ UNCHANGED <<db, req, ext>>
    ELSE IF fail = "storage.upload"
    THEN /\ respond(fail, "store error", <<"storage.upload">>)
         /\ UNCHANGED <<db, req, ext>>
    ELSE /\ uploads < MaxUploads
         /\ respond("none", "none", <<"storage.upload">>)
         /\ uploads' = uploads + 1
         /\ UNCHANGED <<db, req, shouldError, errorMessage, svcSession, profiles, del,
                      upd, form, page>>

GetConcerts ==
    /\ last = NoResponse
    /\ \E session \in AdminSessions, fail \in {"none", "concerts.select"} :
          getConcerts(session, fail)

GetConcert ==
    /\ last = NoResponse
    /\ \E session \in AdminSessions, id \in ConcertIds,
          fail \in {"none", "concerts.select"} :
          getConcert(session, id, fail)

GetUsers ==
    /\ last = NoResponse
    /\ \E session \in AdminSessions, fail \in {"none", "profiles.select"} :
          getUsers(session, fail)

GetOrders ==
    /\ last = NoResponse
    /\ \E session \in AdminSessions, fail \in {"none", "orders.select"} :
          getOrders(session, fail)

ToggleUserStatus ==
    /\ last = NoResponse
    /\ \E session \in AdminSessions, id \in UserIds, isActive \in BOOLEAN,
          fail \in {"none", "profiles.update"} :
          toggleUserStatus(session, id, isActive, fail)

UploadImage ==
    /\ last = NoResponse
    /\ \E session \in AdminSessions, file \in Files,
          fail \in {"none", "storage.upload"} :
          uploadImage(session, file, fail)

\* The admin back-office: every server action of the admin pages, called
\* by an admin, by a customer and without a session.
NextAuthz ==
    \/ GetConcerts
    \/ SubmitCreateForm
    \/ SubmitUpdateForm
    \/ DeleteConcert
    \/ GetConcert
    \/ UploadImage
    \/ GetUsers
    \/ ToggleUserStatus
    \/ GetOrders
    \/ UpdateOrderStatus
    \/ Return

SpecAuthz == Init /\ [][NextAuthz]_vars

\* ------------------------------------------------- EventDetailService
\* The in-memory event-detail service of the integration suite; it shares
\* setSession, setError and checkAuthentication with the ticket-history
\* service. The validations of its createOrder, in the order they are
\* made; "none" when all pass.
EventDetailService_createOrderError(concertId, quantity) ==
    IF shouldError THEN errorMessage
    ELSE IF ~checkAuthentication THEN "Please login to purchase tickets"
    ELSE IF concertId \notin DOMAIN concerts THEN "Event not found"
    ELSE IF quantity <= 0 THEN "Pilih jumlah tiket dulu."
    ELSE IF concerts[concertId].available_tickets < quantity
    THEN "Not enough tickets available"
    ELSE "none"

EventDetailService_createOrder(userId, concertId, quantity) ==
    LET error == EventDetailService_createOrderError(concertId, quantity)
        respond(orderId) ==
            last' = Response("EventDetailService.createOrder", svcSession,
                             concertId, quantity, orderId, "", "none", error, <<>>)
    IN
    IF error # "none"
    THEN /\ respond(0)
         /\ UNCHANGED <<db, req, ext>>
    ELSE /\ nextOrderId <= MaxOrders
         /\ respond(nextOrderId)
         /\ orders' = Insert(orders, nextOrderId,
                        [ user_id |-> userId, concert_id |-> concertId,
                          quantity |-> quantity,
                          total_price |-> concerts[concertId].price * quantity,
                          status |-> "pending" ])
         /\ nextOrderId' = nextOrderId + 1
         /\ concerts' = [concerts EXCEPT ![concertId].available_tickets =
                            concerts[concertId].available_tickets - quantity]
         /\ UNCHANGED <<nextConcertId, req, ext>>

EventCreateOrder ==
    /\ last = NoResponse
    /\ \E userId \in UserIds, concertId \in ConcertIds, quantity \in Quantities :
          EventDetailService_createOrder(userId, concertId, quantity)

\* The three implementations of createOrder on one store.
NextCreate ==
    \/ CreateOrder
    \/ ServiceCreateOrder
    \/ EventCreateOrder
    \/ ServiceSetSession
    \/ ServiceSetError
    \/ Return

SpecCreate == Init /\ [][NextCreate]_vars

\* ------------------------------------------------- order rows over time
\* Orders being placed and paid or cancelled while the admin edits the
\* concerts they reference (price, ticket counts).
NextFields ==
    \/ PlaceOrder
    \/ ChangeOrderStatus
    \/ SubmitUpdateForm
    \/ Return

SpecFields == Init /\ [][NextFields]_vars

\* ------------------------------------------------- a fresh box office
\* createOrderAction and updateOrderStatus, one handler at a time, on a
\* store that has taken no order yet.
SpecSales == InitConc /\ [][Next]_vars

\* ------------------------------------------------- sign-in
\* The credential sign-in handlers. The e-mail typed names an account (the
\* user it belongs to, "unknown" when there is none, "" when left empty);
\* the password typed has a length and matches the account's or not. The
\* response carries the credentials and, in its data, the user signed in.
Accounts == UserIds \cup {"unknown", ""}

MinPasswordLength == 6

Passwords ==
    { [length |-> 0, matches |-> FALSE],
      [length |-> MinPasswordLength - 1, matches |-> FALSE],
      [length |-> MinPasswordLength + 2, matches |-> FALSE],
      [length |-> MinPasswordLength + 2, matches |-> TRUE] }

SignInResponse(op, account, password, failed, error, calls) ==
    [ op |-> op, account |-> account, password |-> password, failed |-> failed,
      error |-> error, calls |-> calls, data |-> << >> ]

SignedIn(response, role) ==
    WithData(response, <<[id |-> response.account, role |-> role]>>)

\* AuthService.signIn of the authentication suite, over the profiles: any
\* password of six characters or more is taken for the right one.
AuthService_signIn(account, password) ==
    LET response(error) ==
            SignInResponse("AuthService.signIn", account, password, "none", error, <<>>)
    IN
    /\ last' = IF account \notin DOMAIN profiles
               THEN response("Invalid login credentials")
               ELSE IF ~profiles[account].is_active
               THEN response("Account is disabled")
               ELSE IF password.length < MinPasswordLength
               THEN response("Invalid login credentials")
               ELSE SignedIn(response("none"), profiles[account].role)
    /\ UNCHANGED <<db, req, ext>>

\* authorize of authOptions (lib/authOptions): password sign-in, then the
\* profile is read for the role and the is_active flag; a failed profile
\* read falls back to role 'user'. Returning null is the error "null".
authOptions_authorize(account, password, fail) ==
    LET response(failed, error, calls) ==
            SignInResponse("authOptions.authorize", account, password,
                           failed, error, calls)
    IN
    /\ last' = IF account = "" \/ password.length = 0
               THEN response("none", "null", <<>>)
               ELSE IF account \notin DOMAIN profiles \/ ~password.matches
               THEN response("none", "null", <<"auth.signInWithPassword">>)
               ELSE IF fail = "profiles.select"
               THEN SignedIn(response(fail, "none",
                                      <<"auth.signInWithPassword", "profiles.select">>),
                             "user")
               ELSE IF ~profiles[account].is_active
               THEN response("none", "Your Account is disabled",
                             <<"auth.signInWithPassword", "profiles.select">>)
               ELSE SignedIn(response("none", "none",
                                      <<"auth.signInWithPassword", "profiles.select">>),
                             profiles[account].role)
    /\ UNCHANGED <<db, req, ext>>

\* authorize of the options the NextAuth route handler is built from: the
\* profile is read for the role only.
options_authorize(account, password, fail) ==
    LET response(failed, error, calls) ==
            SignInResponse("options.authorize", account, password,
                           failed, error, calls)
    IN
    /\ last' = IF account = "" \/ password.length = 0
               THEN response("none", "null", <<>>)
               ELSE IF account \notin DOMAIN profiles \/ ~password.matches
               THEN response("none", "null", <<"auth.signInWithPassword">>)
               ELSE IF fail = "profiles.select"
               THEN SignedIn(response(fail, "none",
                                      <<"auth.signInWithPassword", "profiles.select">>),
                             "user")
               ELSE SignedIn(response("none", "none",
                                      <<"auth.signInWithPassword", "profiles.select">>),
                             profiles[account].role)
    /\ UNCHANGED <<db, req, ext>>

ServiceSignIn ==
    /\ last = NoResponse
    /\ \E account \in Accounts, password \in Passwords :
          AuthService_signIn(account, password)

AuthOptionsSignIn ==
    /\ last = NoResponse
    /\ \E account \in Accounts, password \in Passwords,
          fail \in {"none", "profiles.select"} :
          authOptions_authorize(account, password, fail)

RouteSignIn ==
    /\ last = NoResponse
    /\ \E account \in Accounts, password \in Passwords,
          fail \in {"none", "profiles.select"} :
          options_authorize(account, password, fail)

\* Users signing in while the admin disables and enables accounts.
NextAuth ==
    \/ ServiceSignIn
    \/ AuthOptionsSignIn
    \/ RouteSignIn
    \/ ToggleUserStatus
    \/ Return

SpecAuth == Init /\ [][NextAuth]_vars

\* ------------------------------------------------- reads of the services
\* A caller may repeat a read right after a read, before anything else
\* happens; the response counts the calls of such a row (first, or repeated).
ReadOps ==
    { "EventDetailService.getEventById", "OrderService.getOrders",
      "OrderService.getOrderById", "OrderService.getTicketsRemaining" }

MayRead == last = NoResponse \/ last.op \in ReadOps

ReadResponse(op, concertId, orderId, error, rows) ==
    [ op |-> op, concertId |-> concertId, orderId |-> orderId, error |-> error,
      data |-> rows,
      call |-> IF last # NoResponse /\ last.op = op /\ last.concertId = concertId
                  /\ last.orderId = orderId
               THEN 2 ELSE 1 ]

EventDetailService_getEventById(id) ==
    /\ last' = IF shouldError
               THEN ReadResponse("EventDetailService.getEventById", id, 0,
                                 errorMessage, << >>)
               ELSE IF id \notin DOMAIN concerts
               THEN ReadResponse("EventDetailService.getEventById", id, 0,
                                 "Event not found", << >>)
               ELSE ReadResponse("EventDetailService.getEventById", id, 0,
                                 "none", <<concerts[id]>>)
    /\ UNCHANGED <<db, req, ext>>

\* The array of orders is copied out in insertion order.
OrderService_getOrders ==
    /\ last' = IF shouldError
               THEN ReadResponse("OrderService.getOrders", 0, 0, errorMessage, << >>)
               ELSE ReadResponse("OrderService.getOrders", 0, 0, "none",
                                 [i \in 1..Cardinality(DOMAIN orders) |->
                                    orders[CHOOSE o \in DOMAIN orders :
                                        Cardinality({x \in DOMAIN orders : x <= o}) = i]])
    /\ UNCHANGED <<db, req, ext>>

OrderService_getOrderById(id) ==
    /\ last' = IF shouldError
               THEN ReadResponse("OrderService.getOrderById", 0, id, errorMessage, << >>)
               ELSE IF id \notin DOMAIN orders
               THEN ReadResponse("OrderService.getOrderById", 0, id,
                                 "Order not found", << >>)
               ELSE ReadResponse("OrderService.getOrderById", 0, id, "none",
                                 <<orders[id]>>)
    /\ UNCHANGED <<db, req, ext>>

\* Variant: the read holds one ticket back.
OrderService_getTicketsRemaining_Holding(concertId) ==
    /\ last' = ReadResponse("OrderService.getTicketsRemaining", concertId, 0, "none",
                            <<IF concertId \in DOMAIN concerts
                              THEN concerts[concertId].available_tickets ELSE 0>>)
    /\ concerts' = IF concertId \in DOMAIN concerts
                   THEN [concerts EXCEPT ![concertId].available_tickets = @ - 1]
                   ELSE concerts
    /\ UNCHANGED <<orders, nextConcertId, nextOrderId, req, ext>>

OrderService_getTicketsRemaining(concertId) ==
    /\ last' = ReadResponse("OrderService.getTicketsRemaining", concertId, 0, "none",
                            <<IF concertId \in DOMAIN concerts
                              THEN concerts[concertId].available_tickets ELSE 0>>)
    /\ UNCHANGED <<db, req, ext>>

GetEventById ==
    /\ MayRead
    /\ \E id \in ConcertIds : EventDetailService_getEventById(id)

ServiceGetOrders ==
    /\ MayRead
    /\ OrderService_getOrders

ServiceGetOrderById ==
    /\ MayRead
    /\ \E id \in OrderIds : OrderService_getOrderById(id)

GetTicketsRemaining ==
    /\ MayRead
    /\ \E concertId \in ConcertIds : OrderService_getTicketsRemaining(concertId)

\* The order service being read while orders are placed and their status
\* changes.
NextReads ==
    \/ ServiceCreateOrder
    \/ ServiceUpdateStatus
    \/ ServiceSetError
    \/ GetEventById
    \/ ServiceGetOrders
    \/ ServiceGetOrderById
    \/ GetTicketsRemaining
    \/ Return

SpecReads == InitService /\ [][NextReads]_vars

\* The tickets held by a set of orders.
RECURSIVE HeldTickets(_)
HeldTickets(ids) ==
    IF ids = {} THEN 0
    ELSE LET o == CHOOSE x \in ids : TRUE
         IN orders[o].quantity + HeldTickets(ids \ {o})

\* ------------------------------------------------- updateOrderStatus, await by await
\* Admins' updateOrderStatus calls, each store call one step: the select of
\* the current status with the validation that follows it, then the update.
StartUpdateStatus(p) ==
    /\ upd[p].pc = "idle"
    /\ \E session \in {UserSession, AdminSession}, id \in OrderIds,
          newStatus \in NewStatuses :
          upd' = [upd EXCEPT ![p] =
                    IF checkAdmin(session)
                    THEN [pc |-> "select", id |-> id, newStatus |-> newStatus,
                          error |-> "none"]
                    ELSE [pc |-> "done", id |-> id, newStatus |-> newStatus,
                          error |-> "Unauthorized"]]
    /\ UNCHANGED <<db, last, req, shouldError, errorMessage, svcSession,
                   profiles, uploads, del, form, page>>

SelectOrderStatus(p) ==
    /\ upd[p].pc = "select"
    /\ upd' = [upd EXCEPT ![p] =
                 IF upd[p].id \notin DOMAIN orders
                 THEN [@ EXCEPT !.pc = "done", !.error = "no rows"]
                 ELSE IF upd[p].newStatus \notin
                            allowedTransitions(orders[upd[p].id].status)
                 THEN [@ EXCEPT !.pc = "done", !.error = "Cannot change status"]
                 ELSE [@ EXCEPT !.pc = "update"]]
    /\ UNCHANGED <<db, last, req, shouldError, errorMessage, svcSession,
                   profiles, uploads, del, form, page>>

UpdateStatusRow(p) ==
    /\ upd[p].pc = "update"
    /\ orders' = IF upd[p].id \in DOMAIN orders
                 THEN [orders EXCEPT ![upd[p].id] = SetStatus(@, upd[p].newStatus)]
                 ELSE orders
    /\ upd' = [upd EXCEPT ![p].pc = "done"]
    /\ UNCHANGED <<concerts, nextConcertId, nextOrderId, last, req, shouldError,
                   errorMessage, svcSession, profiles, uploads, del, form, page>>

FinishUpdateStatus(p) ==
    /\ upd[p].pc = "done"
    /\ upd' = [upd EXCEPT ![p] = IdleUpdate]
    /\ UNCHANGED <<db, last, req, shouldError, errorMessage, svcSession,
                   profiles, uploads, del, form, page>>

NextUpdateRace ==
    \/ \E p \in Procs : StartUpdateStatus(p)
    \/ \E p \in Procs : SelectOrderStatus(p)
    \/ \E p \in Procs : UpdateStatusRow(p)
    \/ \E p \in Procs : FinishUpdateStatus(p)

SpecUpdateRace == Init /\ [][NextUpdateRace]_vars

\* ------------------------------------------------- the concert edit form
\* EditConcertPage: the form is rendered with the concert getConcert
\* returned; its inputs default to that concert's fields.
EditConcertPage ==
    /\ last = NoResponse
    /\ form = NoForm
    /\ \E id \in DOMAIN concerts :
          form' = [id |-> id, concert |-> concerts[id]]
    /\ UNCHANGED <<db, last, req, shouldError, errorMessage, svcSession,
                   profiles, uploads, del, upd, page>>

\* ConcertForm.handleSubmit of the open edit form: the admin types a price
\* and leaves the ticket inputs at their defaults.
SubmitEditForm ==
    /\ last = NoResponse
    /\ form # NoForm
    /\ \E price \in Prices, fail \in {"none", "concerts.update"} :
          updateConcert(AdminSession, form.id,
                        handleSubmit(price, form.concert.total_tickets,
                                     <<form.concert.available_tickets>>),
                        fail)

\* router.push('/admin/concerts') after updateConcert returned.
Saved == form # NoForm /\ last.op = "updateConcert" /\ last.error = "none"

LeaveEditForm ==
    /\ Saved
    /\ form' = NoForm
    /\ last' = NoResponse
    /\ UNCHANGED <<db, req, shouldError, errorMessage, svcSession,
                   profiles, uploads, del, upd, page>>

ReturnToForm ==
    /\ ~Saved
    /\ Return

NextForm ==
    \/ EditConcertPage
    \/ PlaceOrder
    \/ SubmitEditForm
    \/ LeaveEditForm
    \/ ReturnToForm

SpecForm == Init /\ [][NextForm]_vars

\* ------------------------------------------------- the event detail page
\* The page names the ticket columns qty (concerts.qty, orders.qty); they
\* are modelled by available_tickets and quantity, the columns the other
\* handlers use for the same counts.
\* fetchData: the concert row is loaded into the page's event state; event
\* stays undefined when no row matches.
fetchData(id) ==
    /\ page' = IF id \in DOMAIN concerts
               THEN [id |-> id, event |-> concerts[id]]
               ELSE NoPage
    /\ UNCHANGED <<db, last, req, shouldError, errorMessage, svcSession,
                   profiles, uploads, del, upd, form>>

\* handleCheckout and the createOrder it calls, with the quantity typed into
\* the number input and the session supabase.auth.getSession() returns.
handleCheckout(session, qty, fail) ==
    LET event == page.event
        respond(orderId, failed, error, calls) ==
            last' = Response("handleCheckout", session, page.id, qty,
                             orderId, "", failed, error, calls)
        rest == <<req, shouldError, errorMessage, svcSession, profiles,
                  uploads, del, upd, form>>
    IN
    IF qty <= 0
    THEN /\ respond(0, "none", "Pilih jumlah tiket dulu.", <<>>)
         /\ UNCHANGED <<db, page, rest>>
    ELSE IF page = NoPage
    THEN /\ respond(0, "none", "none", <<>>)
         /\ UNCHANGED <<db, page, rest>>
    ELSE IF session = NoSession \/ session.id = ""
    THEN /\ respond(0, "none", "User tidak ditemukan. Silakan login ulang.", <<>>)
         /\ UNCHANGED <<db, page, rest>>
    ELSE IF fail = "orders.insert" \/ page.id \notin DOMAIN concerts
    THEN /\ respond(0, IF fail = "orders.insert" THEN fail ELSE "none",
                    "Gagal membuat order.", <<"orders.insert">>)
         /\ UNCHANGED <<db, page, rest>>
    ELSE /\ nextOrderId <= MaxOrders
         /\ orders' = Insert(orders, nextOrderId,
                        NewOrder(session.id, page.id, qty, qty * event.price))
         /\ nextOrderId' = nextOrderId + 1
         /\ respond(nextOrderId, IF fail = "concerts.update" THEN fail ELSE "none",
                    "none", <<"orders.insert", "concerts.update">>)
         /\ concerts' = IF fail = "concerts.update"
                        THEN concerts
                        ELSE [concerts EXCEPT ![page.id].available_tickets =
                                event.available_tickets - qty]
         /\ page' = NoPage
         /\ UNCHANGED <<nextConcertId, rest>>

OpenEventPage ==
    /\ last = NoResponse
    /\ \E id \in ConcertIds : fetchData(id)

Checkout ==
    /\ last = NoResponse
    /\ \E session \in CustomerSessions, qty \in Quantities,
          fail \in {"none", "orders.insert", "concerts.update"} :
          handleCheckout(session, qty, fail)

NextCheckout ==
    \/ OpenEventPage
    \/ Checkout
    \/ PlaceOrder
    \/ Return

SpecCheckout == Init /\ [][NextCheckout]_vars

\* =================================================================
\* Properties
\* =================================================================

\* C1: an authenticated createOrderAction on an existing concert with
\* 1 <= quantity <= available_tickets and no store failure succeeds, appends
\* exactly one order (all earlier orders untouched), lowers that concert's
\* available_tickets by exactly quantity and leaves every other concert as
\* it was.
C1_CreateOrderDecrementsByQuantity ==
    [][ ( /\ last'.op = "createOrderAction"
          /\ last'.session.id # ""
          /\ last'.concertId \in DOMAIN concerts
          /\ last'.quantity >= 1
          /\ last'.quantity <= concerts[last'.concertId].available_tickets
          /\ last'.failed = "none" )
        => ( /\ last'.error = "none"
             /\ last'.orderId \notin DOMAIN orders
             /\ DOMAIN orders' = DOMAIN orders \cup {last'.orderId}
             /\ \A o \in DOMAIN orders : orders'[o] = orders[o]
             /\ orders'[last'.orderId].concert_id = last'.concertId
             /\ orders'[last'.orderId].quantity = last'.quantity
             /\ DOMAIN concerts' = DOMAIN concerts
             /\ concerts'[last'.concertId].available_tickets =
                    concerts[last'.concertId].available_tickets - last'.quantity
             /\ \A c \in DOMAIN concerts \ {last'.concertId} :
                    concerts'[c] = concerts[c] ) ]_vars

C1_Witness ==
    /\ last.op = "createOrderAction"
    /\ last.error = "none"
    /\ last.quantity = 2
    /\ last.orderId \in DOMAIN orders
    /\ concerts[last.concertId].available_tickets = 0
    /\ DOMAIN concerts \ {last.concertId} # {}

\* C2: an authenticated createOrderAction on an existing concert (read
\* without store failure) whose quantity exceeds the concert's
\* available_tickets fails with 'Not enough tickets available', creates no
\* order and changes no concert.
C2_InsufficientInventoryRejected ==
    [][ ( /\ last'.op = "createOrderAction"
          /\ last'.session.id # ""
          /\ last'.concertId \in DOMAIN concerts
          /\ last'.failed = "none"
          /\ last'.quantity > concerts[last'.concertId].available_tickets )
        => ( /\ last'.error = "Not enough tickets available"
             /\ orders' = orders
             /\ concerts' = concerts ) ]_vars

C2_Witness ==
    /\ last.op = "createOrderAction"
    /\ last.error = "Not enough tickets available"
    /\ last.concertId \in DOMAIN concerts
    /\ last.quantity = concerts[last.concertId].available_tickets + 1

\* C3: an authenticated createOrderAction on an existing concert with
\* quantity <= 0 fails, creates no order and changes no availability.
C3_NonPositiveQuantityRejected ==
    [][ ( /\ last'.op = "createOrderAction"
          /\ last'.session.id # ""
          /\ last'.concertId \in DOMAIN concerts
          /\ last'.failed = "none"
          /\ last'.quantity <= 0 )
        => ( /\ last'.error # "none"
             /\ orders' = orders
             /\ concerts' = concerts ) ]_vars

\* C4: with no session, or a session without a user id, createOrderAction
\* fails with 'User not authenticated' before any call to the store: no
\* store call is made, no order is created and no concert changes.
C4_UnauthenticatedTouchesNoStore ==
    [][ ( /\ last'.op = "createOrderAction"
          /\ last'.session.id = "" )
        => ( /\ last'.error = "User not authenticated"
             /\ last'.calls = << >>
             /\ orders' = orders
             /\ concerts' = concerts
             /\ nextOrderId' = nextOrderId ) ]_vars

C4_Witness ==
    /\ last.op = "createOrderAction"
    /\ last.session = NoIdSession
    /\ last.error = "User not authenticated"
    /\ last.concertId \in DOMAIN concerts
    /\ last.quantity >= 1
    /\ last.quantity <= concerts[last.concertId].available_tickets

\* C5: in every reachable state each concert has
\* 0 <= available_tickets <= total_tickets.
C5_AvailabilityWithinCapacity ==
    \A c \in DOMAIN concerts :
        /\ 0 <= concerts[c].available_tickets
        /\ concerts[c].available_tickets <= concerts[c].total_tickets

\* C6: when all concurrent createOrderAction requests (each for at least
\* one ticket) have finished, for every concert the quantities of the
\* successful requests sum to at most the concert's available_tickets
\* before the requests, and the final available_tickets is that initial
\* value minus the sum.
C6_NoOversubscription ==
    (\A p \in Procs : req[p].pc = "done" /\ req[p].quantity >= 1)
    => \A c \in DOMAIN InitConcerts :
         LET sold == SumQuantities({p \in Procs : /\ req[p].error = "none"
                                                   /\ req[p].concertId = c})
         IN /\ sold <= InitConcerts[c].available_tickets
            /\ concerts[c].available_tickets =
                   InitConcerts[c].available_tickets - sold

\* C7: after a createOrderAction call for at least one ticket an order of
\* that call exists exactly when the concert's available_tickets was lowered
\* by its quantity, and a failed call leaves no order behind.
C7_OrderAndDecrementPaired ==
    [][ ( /\ last'.op = "createOrderAction"
          /\ last'.quantity >= 1
          /\ last'.concertId \in DOMAIN concerts )
        => ( /\ (orders' # orders) =>
                    concerts'[last'.concertId].available_tickets =
                        concerts[last'.concertId].available_tickets - last'.quantity
             /\ (orders' = orders) => concerts' = concerts
             /\ (last'.error # "none") => orders' = orders ) ]_vars

\* C8: every order created by createOrderAction has total_price equal to
\* the price of the concert read by that call times the requested quantity.
C8_TotalPriceIsPriceTimesQuantity ==
    [][ ( /\ last'.op = "createOrderAction"
          /\ last'.orderId # 0 )
        => ( /\ last'.orderId \in DOMAIN orders'
             /\ orders'[last'.orderId].total_price =
                    concerts[last'.concertId].price * last'.quantity ) ]_vars

C8_Witness ==
    /\ last.op = "createOrderAction"
    /\ last.error = "none"
    /\ last.quantity = 2
    /\ concerts[last.concertId].price = 50000
    /\ orders[last.orderId].total_price = 100000

C10_CancelledIsTerminal ==
    [][ /\ \A o \in DOMAIN orders :
              orders[o].status = "cancelled"
              => (o \in DOMAIN orders' /\ orders'[o].status = "cancelled")
        /\ ( /\ last'.op = "updateOrderStatus"
             /\ last'.orderId \in DOMAIN orders
             /\ orders[last'.orderId].status = "cancelled"
             /\ last'.newStatus # "cancelled" )
           => last'.error # "none" ]_vars

C10_Witness ==
    /\ last.op = "updateOrderStatus"
    /\ last.session = AdminSession
    /\ last.failed = "none"
    /\ last.newStatus = "success"
    /\ last.error = "Cannot change status"
    /\ last.orderId \in DOMAIN orders
    /\ orders[last.orderId].status = "cancelled"

\* C11: every successful status update that moves an order (of at least one
\* ticket) into cancelled raises the available_tickets of the order's
\* concert by the order's quantity; every other status update, accepted or
\* rejected, changes no concert.
C11_CancellationRestoresTickets ==
    [][ ( /\ last'.op = "updateOrderStatus"
          /\ last'.orderId \in DOMAIN orders
          /\ orders[last'.orderId].quantity >= 1
          /\ orders[last'.orderId].concert_id \in DOMAIN concerts )
        => IF /\ last'.error = "none"
              /\ last'.newStatus = "cancelled"
              /\ orders[last'.orderId].status # "cancelled"
           THEN concerts'[orders[last'.orderId].concert_id].available_tickets =
                    concerts[orders[last'.orderId].concert_id].available_tickets
                        + orders[last'.orderId].quantity
           ELSE concerts' = concerts ]_vars

C13_OrderFieldsImmutable ==
    [][ /\ \A o \in DOMAIN orders :
            /\ o \in DOMAIN orders'
            /\ orders'[o].quantity = orders[o].quantity
            /\ orders'[o].total_price = orders[o].total_price
            /\ orders'[o].user_id = orders[o].user_id
            /\ orders'[o].concert_id = orders[o].concert_id
            /\ orders'[o] # orders[o]
                 => ( /\ last'.op = "updateOrderStatus"
                      /\ last'.error = "none"
                      /\ last'.orderId = o )
        /\ last'.op = "updateConcert" => orders' = orders ]_vars

\* A cancelled order whose total_price is no longer price * quantity, right
\* after the concert's price was changed.
C13_Witness ==
    /\ last.op = "updateConcert"
    /\ last.error = "none"
    /\ \E o \in DOMAIN orders :
        /\ orders[o].concert_id = last.concertId
        /\ orders[o].status = "cancelled"
        /\ last.concertId \in DOMAIN concerts
        /\ orders[o].total_price #
               concerts[last.concertId].price * orders[o].quantity

\* C14: a read of one order by id, requested by a signed-in actor whose id
\* differs from the order's user_id, fails and returns no order data.
C14_OrderReturnedOnlyToOwner ==
    [][ ( /\ last'.op \in {"loadOrder", "TicketHistoryService.getOrderById"}
          /\ last'.session.id # ""
          /\ last'.orderId \in DOMAIN orders
          /\ orders[last'.orderId].user_id # last'.session.id )
        => ( /\ last'.error # "none"
             /\ last'.data = << >> ) ]_vars

\* C15: deleteConcert(id) called while some order with a status other than
\* cancelled references concert id fails and removes neither a concert nor
\* an order.
C15_DeleteBlockedByActiveOrder ==
    [][ ( /\ last'.op = "deleteConcert"
          /\ \E o \in DOMAIN orders :
                /\ orders[o].concert_id = last'.concertId
                /\ orders[o].status # "cancelled" )
        => ( /\ last'.error # "none"
             /\ orders' = orders
             /\ concerts' = concerts ) ]_vars

\* An admin was refused the deletion of a concert that has a paid order.
C15_Witness ==
    /\ last.op = "deleteConcert"
    /\ last.session = AdminSession
    /\ last.failed = "none"
    /\ last.error = "Cannot delete concert. There are active (non-cancelled) orders."
    /\ last.concertId \in DOMAIN concerts
    /\ \E o \in DOMAIN orders :
          orders[o].concert_id = last.concertId /\ orders[o].status = "success"

\* C16: every order row (of at least one ticket) that a step removes from
\* the ledger has status cancelled, also when createOrderAction requests
\* interleave with the store calls of deleteConcert.
C16_OnlyCancelledOrdersDeleted ==
    [][ \A o \in DOMAIN orders \ DOMAIN orders' :
            orders[o].quantity >= 1 => orders[o].status = "cancelled" ]_vars

\* C17: every admin action called without a session or with a session
\* whose role is not admin throws 'Unauthorized', makes no store call and
\* leaves the concerts, the orders, the profiles and the image bucket as
\* they were; the back-office has exactly the ten admin actions.
C17_AdminActionsRequireAdmin ==
    [][ last' # NoResponse
        => /\ last'.op \in { "getConcerts", "createConcert", "updateConcert",
                             "deleteConcert", "getConcert", "uploadImage",
                             "getUsers", "toggleUserStatus", "getOrders",
                             "updateOrderStatus" }
           /\ (last'.session = NoSession \/ last'.session.role # "admin")
              => ( /\ last'.error = "Unauthorized"
                   /\ last'.calls = << >>
                   /\ last'.data = << >>
                   /\ concerts' = concerts
                   /\ orders' = orders
                   /\ profiles' = profiles
                   /\ uploads' = uploads ) ]_vars

\* A signed-in customer was refused the deactivation of a user.
C17_Witness ==
    /\ last.op = "toggleUserStatus"
    /\ last.session = UserSession
    /\ last.error = "Unauthorized"
    /\ last.calls = << >>

\* C18: EventDetailService.createOrder returns the error of the earliest
\* failing precondition in the order authentication, positive quantity,
\* event exists, quantity <= available_tickets (it has no per-order maximum).
C18_PreconditionsInFixedOrder ==
    [][ ( /\ last'.op = "EventDetailService.createOrder"
          /\ ~shouldError )
        => last'.error =
             IF svcSession = NoSession THEN "Please login to purchase tickets"
             ELSE IF last'.quantity <= 0 THEN "Pilih jumlah tiket dulu."
             ELSE IF last'.concertId \notin DOMAIN concerts THEN "Event not found"
             ELSE IF concerts[last'.concertId].available_tickets < last'.quantity
             THEN "Not enough tickets available"
             ELSE "none" ]_vars

\* C19: OrderService.createOrder rejects every request for more than 10
\* tickets and changes nothing, with 'Maximum 10 tickets per order' when the
\* service is not switched to fail and the concert has that many tickets
\* available; every order in the ledger has 1 <= quantity <= 10.
C19_AtMostTenTicketsPerOrder ==
    [][ /\ ( /\ last'.op = "OrderService.createOrder"
             /\ last'.quantity > 10 )
           => ( /\ last'.error # "none"
                /\ orders' = orders
                /\ concerts' = concerts
                /\ ( /\ ~shouldError
                     /\ last'.concertId \in DOMAIN concerts
                     /\ concerts[last'.concertId].available_tickets >= last'.quantity )
                   => last'.error = "Maximum 10 tickets per order" )
        /\ \A o \in DOMAIN orders' :
              orders'[o].quantity >= 1 /\ orders'[o].quantity <= 10 ]_vars

\* A request for 11 tickets was refused for its size while the ledger holds
\* an order of exactly 10.
C19_Witness ==
    /\ last.op = "OrderService.createOrder"
    /\ last.quantity = 11
    /\ last.error = "Maximum 10 tickets per order"
    /\ \E o \in DOMAIN orders : orders[o].quantity = 10

\* C20: createOrder for an event id that does not exist, by a caller that
\* passes the checks made before the lookup (signed in, service not switched
\* to fail), fails with 'Concert not found' ('Event not found' in
\* EventDetailService), creates no order and changes no availability.
C20_MissingEventRejected ==
    [][ ( /\ last'.concertId \notin DOMAIN concerts
          /\ \/ last'.op = "createOrderAction" /\ last'.session.id # ""
             \/ last'.op = "OrderService.createOrder" /\ ~shouldError
             \/ /\ last'.op = "EventDetailService.createOrder"
                /\ ~shouldError
                /\ svcSession # NoSession )
        => ( /\ last'.error = IF last'.op = "EventDetailService.createOrder"
                              THEN "Event not found"
                              ELSE "Concert not found"
             /\ last'.orderId = 0
             /\ orders' = orders
             /\ concerts' = concerts ) ]_vars

\* A signed-in customer ordered a ticket of a concert that is not in the
\* store.
C20_Witness ==
    /\ last.op = "createOrderAction"
    /\ last.session = UserSession
    /\ last.failed = "none"
    /\ last.quantity >= 1
    /\ last.concertId \notin DOMAIN concerts
    /\ last.error = "Concert not found"

\* C21: once a concert is sold out (available_tickets = 0), it stays sold
\* out through every step that is neither a cancellation nor an admin
\* update of the concert, and every createOrderAction for at least one of
\* its tickets fails with 'Not enough tickets available' and adds no order.
C21_SoldOutStaysSoldOut ==
    [][ \A c \in DOMAIN concerts :
          ( /\ concerts[c].available_tickets = 0
            /\ last'.op \notin {"updateConcert", "deleteConcert"}
            /\ ~(last'.op = "updateOrderStatus" /\ last'.newStatus = "cancelled") )
          => ( /\ c \in DOMAIN concerts'
               /\ concerts'[c].available_tickets = 0
               /\ ( /\ last'.op = "createOrderAction"
                    /\ last'.session.id # ""
                    /\ last'.failed = "none"
                    /\ last'.concertId = c
                    /\ last'.quantity >= 1 )
                  => ( /\ last'.error = "Not enough tickets available"
                       /\ orders' = orders ) ) ]_vars

\* C22: when a store call of createOrderAction or updateOrderStatus reports
\* an error, the handler fails with exactly the store's error message and
\* leaves the orders and the concerts as they were.
C22_StoreErrorPassedVerbatim ==
    [][ ( /\ last'.op \in {"createOrderAction", "updateOrderStatus"}
          /\ last'.failed # "none" )
        => ( /\ last'.error = "store error"
             /\ orders' = orders
             /\ concerts' = concerts ) ]_vars

\* C23: every order created by createOrderAction or by
\* EventDetailService.createOrder has as user_id the id of the session the
\* call was made under.
C23_OrderOwnedBySessionUser ==
    [][ ( /\ last'.op \in {"createOrderAction", "EventDetailService.createOrder"}
          /\ last'.orderId \in DOMAIN orders' \ DOMAIN orders )
        => orders'[last'.orderId].user_id = last'.session.id ]_vars

\* C24: a sign-in with the matching password for an account whose profile
\* has is_active = false, the profile read succeeding, is rejected with an
\* 'account is disabled' error and signs nobody in, in every sign-in
\* handler.
C24_DisabledAccountCannotSignIn ==
    [][ ( /\ last'.op \in {"AuthService.signIn", "authOptions.authorize",
                           "options.authorize"}
          /\ last'.failed = "none"
          /\ last'.password.matches
          /\ last'.account \in DOMAIN profiles
          /\ ~profiles[last'.account].is_active )
        => ( /\ last'.error \in {"Account is disabled", "Your Account is disabled"}
             /\ last'.data = << >> ) ]_vars

\* C25: a read (getEventById, getOrders, getOrderById, getTicketsRemaining)
\* changes neither the concerts nor the orders, and a read repeated right
\* after the same read with the same argument returns the same data and
\* the same error.
C25_ReadsIdempotent ==
    [][ last'.op \in { "EventDetailService.getEventById", "OrderService.getOrders",
                       "OrderService.getOrderById",
                       "OrderService.getTicketsRemaining" }
        => ( /\ concerts' = concerts
             /\ orders' = orders
             /\ last'.call = 2
                => ( /\ last.op = last'.op
                     /\ last'.data = last.data
                     /\ last'.error = last.error ) ) ]_vars

\* The tickets remaining were read twice in a row after a sale.
C25_Witness ==
    /\ last.op = "OrderService.getTicketsRemaining"
    /\ last.call = 2
    /\ last.concertId \in DOMAIN concerts
    /\ last.data = <<concerts[last.concertId].available_tickets>>
    /\ concerts[last.concertId].available_tickets < MaxPerOrder + 2

\* C26: in OrderService, for each concert, available_tickets plus the
\* quantities of its orders that are not cancelled equals the
\* available_tickets the concert was added with.
C26_TicketConservation ==
    \A c \in DOMAIN concerts :
        concerts[c].available_tickets
            + HeldTickets({o \in DOMAIN orders :
                            orders[o].concert_id = c /\ orders[o].status # "cancelled"})
        = ServiceConcerts[c].available_tickets

\* One order was cancelled and another, of a different size, is still held.
C26_Witness ==
    /\ last.op = "OrderService.updateStatus"
    /\ last.error = "none"
    /\ last.newStatus = "cancelled"
    /\ \E o \in DOMAIN orders : orders[o].status # "cancelled"
    /\ orders[last.orderId].quantity > 1

\* C27: once an order is cancelled, no status update on it, through
\* OrderService.updateStatus or through updateOrderStatus (which accepts
\* cancelled -> cancelled), changes the availability of any concert or the
\* order's status.
C27_RestoredAtMostOnce ==
    [][ ( /\ last'.op \in {"OrderService.updateStatus", "updateOrderStatus"}
          /\ last'.orderId \in DOMAIN orders
          /\ orders[last'.orderId].status = "cancelled" )
        => ( /\ concerts' = concerts
             /\ orders' = orders ) ]_vars

\* A cancelled order was cancelled again through updateOrderStatus, and the
\* tickets it had taken are back in the inventory.
C27_Witness ==
    /\ last.op = "updateOrderStatus"
    /\ last.error = "none"
    /\ last.newStatus = "cancelled"
    /\ last.orderId \in DOMAIN orders
    /\ orders[last.orderId].status = "cancelled"
    /\ concerts[orders[last.orderId].concert_id].available_tickets
         = ServiceConcerts[orders[last.orderId].concert_id].available_tickets

\* C28: under concurrent updateOrderStatus calls on the same order, a status
\* persisted as cancelled is never overwritten by success or pending.
C28_CancelledNeverOverwritten ==
    [][\A o \in DOMAIN orders \cap DOMAIN orders' :
          orders[o].status = "cancelled" => orders'[o].status = "cancelled"]_vars

\* C29: an updateConcert submitted from an edit form in which the admin
\* changed only the price leaves the stored available_tickets as the orders
\* placed since the form was loaded have made it.
C29_StaleFormKeepsDecrement ==
    [][(/\ form # NoForm
        /\ last'.op = "updateConcert"
        /\ last'.error = "none"
        /\ form.id \in DOMAIN concerts)
       => concerts'[form.id].available_tickets
            = concerts[form.id].available_tickets]_vars

\* C30: the event-page checkout, with a store that answers every call,
\* inserts an order only when 0 < qty <= the event's remaining tickets.
C30_CheckoutWithinRemaining ==
    [][(last'.op = "handleCheckout" /\ last'.failed = "none" /\ orders' # orders)
       => /\ 0 < last'.quantity
          /\ last'.quantity <= page.event.available_tickets
          /\ last'.quantity <= concerts[page.id].available_tickets]_vars
====
